---- MODULE Spec2Model ----
(***************************************************************************)
(* A model of cloud/docker/swarm_service.py: the DockerService value, its  *)
(* translation to the docker-py request, the read-back of a live service,  *)
(* compare_services, and main()'s pass over the docker API.                 *)
(*                                                                         *)
(* Representation choices:                                                 *)
(*  - Python None / a missing service is the record None.                  *)
(*  - service_id=False / service_version=False (line 255-256) are 0.       *)
(*  - restart_policy=None is "None"; a None restart number is -1.          *)
(*  - a dict of labels is the set of its <<key, value>> pairs.             *)
(*  - a float number of CPU cores x is held as the integer                 *)
(*    x * 1e9 * CpuTicksPerNano, so that x * 1e9 may have a fractional part *)
(*    which int() drops.                                                   *)
(***************************************************************************)
EXTENDS Integers, Sequences, FiniteSets, TLC

VARIABLES
    \* ---- the docker swarm (remote state) ----
    svc,              \* the service record named ServiceName, or None
    sibling,          \* the service record named SiblingName, or None
    docker_networks,  \* what dc.networks() lists: a sequence of [name, id]
    \* ---- one run of main() ----
    pc,               \* where main() stands
    params,           \* module.params
    check_mode,       \* module.check_mode
    current_service,  \* what get_service returned (None or a DockerService)
    calls,            \* the mutating API calls issued by this run, in order
    result,           \* what the run reported: exit_json / fail_json / exception
    \* ---- history, for statements that relate two runs ----
    fetched,          \* the record get_service read (None: none, or no run yet)
    removed,          \* the record this run's remove call deleted, or None
    prev,             \* the previous run's report, when this run repeats its
                      \* parameters and nobody else acted since it began; else None
    tainted,          \* how often somebody else acted since this run began
    \* ---- direct application of the pure functions ----
    s1, s2,           \* two DockerService values
    out               \* the last function applied to them, and its result

vars == <<svc, sibling, docker_networks, pc, params, check_mode, current_service,
          calls, result, fetched, removed, prev, tainted, s1, s2, out>>

mainVars  == <<pc, params, check_mode, current_service, calls, result>>
probeVars == <<s1, s2, out>>

None == [none |-> TRUE]

ServiceName == "mydb"

\* another service of the swarm, whose name begins with ServiceName
SiblingName == "mydb2"

\* the characters of the service names
Chars == [ mydb |-> <<"m", "y", "d", "b">>, mydb2 |-> <<"m", "y", "d", "b", "2">> ]

\* ------------------------------------------------------------------------
\* Bounds of the model
\* ------------------------------------------------------------------------

\* s2 differs from the base value in at most MaxChanged fields
MaxChanged == 2

\* somebody else acts on the swarm at most MaxOther times during one run
MaxOther == 2

\* cpu values are multiples of 1/CpuTicksPerNano of a nano-core
CpuTicksPerNano == 2

\* one CPU core, in the cpu unit of the model
Core == 1000000000 * CpuTicksPerNano

\* ------------------------------------------------------------------------
\* Small helpers
\* ------------------------------------------------------------------------

IsPrefix(a, b) == Len(a) <= Len(b) /\ \A i \in 1..Len(a) : a[i] = b[i]

\* filter(lambda n: n['name']==network_name, list)
RECURSIVE FilterByName(_, _)
FilterByName(list, name) ==
    IF list = <<>> THEN <<>>
    ELSE IF Head(list).name = name
         THEN <<Head(list)>> \o FilterByName(Tail(list), name)
         ELSE FilterByName(Tail(list), name)

RECURSIVE FilterById(_, _)
FilterById(list, id) ==
    IF list = <<>> THEN <<>>
    ELSE IF Head(list).id = id
         THEN <<Head(list)>> \o FilterById(Tail(list), id)
         ELSE FilterById(Tail(list), id)

\* ------------------------------------------------------------------------
\* DockerService: the normalized service value
\* ------------------------------------------------------------------------

\* DockerService.__init__: the defaults of a fresh value
DockerService ==
    [ image                   |-> "",
      args                    |-> <<>>,
      endpoint_mode           |-> "vip",
      env                     |-> <<>>,
      labels                  |-> {},
      container_labels        |-> {},
      limit_cpu               |-> 0,
      limit_memory            |-> 0,
      reserve_cpu             |-> 0,
      reserve_memory          |-> 0,
      mode                    |-> "replicated",
      mounts                  |-> <<>>,
      constraints             |-> <<>>,
      networks                |-> <<>>,
      publish                 |-> <<>>,
      replicas                |-> 1,
      service_id              |-> 0,
      service_version         |-> 0,
      restart_policy          |-> "None",
      restart_policy_attempts |-> -1,
      restart_policy_delay    |-> -1,
      restart_policy_window   |-> -1 ]

\* service_from_params: every parameter copied over the defaults; the
\* identity fields keep their default (False)
service_from_params(p) ==
    [ DockerService EXCEPT
        !.endpoint_mode           = p.endpoint_mode,
        !.env                     = p.env,
        !.image                   = p.image,
        !.mode                    = p.mode,
        !.mounts                  = p.mounts,
        !.networks                = p.networks,
        !.replicas                = p.replicas,
        !.restart_policy          = p.restart_policy,
        !.restart_policy_attempts = p.restart_policy_attempts,
        !.restart_policy_delay    = p.restart_policy_delay,
        !.restart_policy_window   = p.restart_policy_window,
        !.args                    = p.args,
        !.constraints             = p.constraints,
        !.labels                  = p.labels,
        !.container_labels        = p.container_labels,
        !.limit_cpu               = p.limit_cpu,
        !.limit_memory            = p.limit_memory,
        !.reserve_cpu             = p.reserve_cpu,
        !.reserve_memory          = p.reserve_memory,
        !.publish                 = p.publish ]

\* ------------------------------------------------------------------------
\* compare_services
\* ------------------------------------------------------------------------

\* changes.append(name) when the two values differ
Changed(a, b, name) == IF a # b THEN <<name>> ELSE <<>>

\* compare_changes with one more test, on the version index
compare_changes_with_version(a, b) ==
       Changed(a.endpoint_mode,    b.endpoint_mode,    "endpoint_mode")
    \o Changed(a.env,              b.env,              "env")
    \o Changed(a.mode,             b.mode,             "mode")
    \o Changed(a.mounts,           b.mounts,           "mounts")
    \o Changed(a.networks,         b.networks,         "networks")
    \o Changed(a.replicas,         b.replicas,         "replicas")
    \o Changed(a.args,             b.args,             "args")
    \o Changed(a.constraints,      b.constraints,      "constraints")
    \o Changed(a.labels,           b.labels,           "labels")
    \o Changed(a.limit_cpu,        b.limit_cpu,        "limit_cpu")
    \o Changed(a.limit_memory,     b.limit_memory,     "limit_memory")
    \o Changed(a.reserve_cpu,      b.reserve_cpu,      "reserve_cpu")
    \o Changed(a.reserve_memory,   b.reserve_memory,   "reserve_memory")
    \o Changed(a.container_labels, b.container_labels, "container_labels")
    \o Changed(a.publish,          b.publish,          "publish")
    \o Changed(a.service_version,  b.service_version,  "service_version")

\* compare_changes with the test of env moved in front of endpoint_mode
compare_changes_env_first(a, b) ==
       Changed(a.env,              b.env,              "env")
    \o Changed(a.endpoint_mode,    b.endpoint_mode,    "endpoint_mode")
    \o Changed(a.mode,             b.mode,             "mode")
    \o Changed(a.mounts,           b.mounts,           "mounts")
    \o Changed(a.networks,         b.networks,         "networks")
    \o Changed(a.replicas,         b.replicas,         "replicas")
    \o Changed(a.args,             b.args,             "args")
    \o Changed(a.constraints,      b.constraints,      "constraints")
    \o Changed(a.labels,           b.labels,           "labels")
    \o Changed(a.limit_cpu,        b.limit_cpu,        "limit_cpu")
    \o Changed(a.limit_memory,     b.limit_memory,     "limit_memory")
    \o Changed(a.reserve_cpu,      b.reserve_cpu,      "reserve_cpu")
    \o Changed(a.reserve_memory,   b.reserve_memory,   "reserve_memory")
    \o Changed(a.container_labels, b.container_labels, "container_labels")
    \o Changed(a.publish,          b.publish,          "publish")

\* the list `changes`, built by the fifteen tests in their source order
compare_changes(a, b) ==
       Changed(a.endpoint_mode,    b.endpoint_mode,    "endpoint_mode")
    \o Changed(a.env,              b.env,              "env")
    \o Changed(a.mode,             b.mode,             "mode")
    \o Changed(a.mounts,           b.mounts,           "mounts")
    \o Changed(a.networks,         b.networks,         "networks")
    \o Changed(a.replicas,         b.replicas,         "replicas")
    \o Changed(a.args,             b.args,             "args")
    \o Changed(a.constraints,      b.constraints,      "constraints")
    \o Changed(a.labels,           b.labels,           "labels")
    \o Changed(a.limit_cpu,        b.limit_cpu,        "limit_cpu")
    \o Changed(a.limit_memory,     b.limit_memory,     "limit_memory")
    \o Changed(a.reserve_cpu,      b.reserve_cpu,      "reserve_cpu")
    \o Changed(a.reserve_memory,   b.reserve_memory,   "reserve_memory")
    \o Changed(a.container_labels, b.container_labels, "container_labels")
    \o Changed(a.publish,          b.publish,          "publish")

\* need_recreate set in the mounts test as well
compare_need_recreate_mounts(a, b) == a.networks # b.networks \/ a.mounts # b.mounts

\* need_recreate is set in the networks test only
compare_need_recreate(a, b) == a.networks # b.networks

\* return len(changes)>0, changes, need_recreate
compare_services(a, b) ==
    [ changed       |-> Len(compare_changes(a, b)) > 0,
      changes       |-> compare_changes(a, b),
      need_recreate |-> compare_need_recreate(a, b) ]

\* ------------------------------------------------------------------------
\* generate_docker_py_service_description
\* ------------------------------------------------------------------------

\* int(self.limit_cpu*1000000000): the whole nano-cores of a cpu value
NanoCPUs(cpu) == cpu \div CpuTicksPerNano

\* self.limit_memory*1024*1024
MemoryBytes(mb) == mb * 1024 * 1024

\* cspec['Mounts']: one {Target, Source, Type} per mount_config
MountsToWire(mounts) ==
    [i \in 1..Len(mounts) |->
        [ Target |-> mounts[i].target,
          Source |-> mounts[i].source,
          Type   |-> mounts[i].type ]]

\* endpoint_spec['Ports']: one {Protocol, PublishedPort, TargetPort} per port
PortsToWire(publish) ==
    [i \in 1..Len(publish) |->
        [ Protocol      |-> publish[i].protocol,
          PublishedPort |-> publish[i].published_port,
          TargetPort    |-> publish[i].target_port ]]

\* the resources dict: both blocks are computed from the limit_* fields
ResourcesToWire(self) ==
    [ Limits       |-> [ NanoCPUs    |-> NanoCPUs(self.limit_cpu),
                         MemoryBytes |-> MemoryBytes(self.limit_memory) ],
      Reservations |-> [ NanoCPUs    |-> NanoCPUs(self.limit_cpu),
                         MemoryBytes |-> MemoryBytes(self.limit_memory) ] ]

\* mode = { 'Replicated': {'Replicas': self.replicas} }, or the Python set
\* { 'Global' } (held as [Global |-> TRUE])
ModeToWire(self) ==
    IF self.mode = "global"
    THEN [ Global |-> TRUE ]
    ELSE [ Replicated |-> [ Replicas |-> self.replicas ] ]

\* network_id: the id of the first docker network of that name; None (here
\* "") when filter(...)[0] raises, which the bare except swallows
NetworkId(network_name, nets) ==
    LET found == FilterByName(nets, network_name)
    IN  IF found = <<>> THEN "" ELSE found[1].id

\* Unresolved without the `else: raise`: a name that does not resolve is
\* passed over
UnresolvedIgnored(names, nets) == {}

\* the names of self.networks whose network_id is falsy
Unresolved(names, nets) ==
    {i \in 1..Len(names) : NetworkId(names[i], nets) = ""}

\* the `networks` list when every name resolves
NetworksToWire(names, nets) ==
    [i \in 1..Len(names) |-> [ Target |-> NetworkId(names[i], nets) ]]

\* the whole method: raises at the first name that does not resolve,
\* else returns task_template, networks, endpoint_spec, mode, self.labels
generate_docker_py_service_description(self, name, nets) ==
    LET bad == Unresolved(self.networks, nets)
    IN  IF bad # {}
        THEN [ raised |-> TRUE,
               error  |-> "no docker networks named",
               arg    |-> self.networks[CHOOSE i \in bad : \A j \in bad : i <= j] ]
        ELSE [ raised        |-> FALSE,
               task_template |->
                 [ ContainerSpec |-> [ Image  |-> self.image,
                                       Mounts |-> MountsToWire(self.mounts),
                                       Args   |-> self.args,
                                       Env    |-> self.env,
                                       Labels |-> self.container_labels ],
                   RestartPolicy |-> [ Condition   |-> self.restart_policy,
                                       Delay       |-> self.restart_policy_delay,
                                       MaxAttempts |-> self.restart_policy_attempts,
                                       Window      |-> self.restart_policy_window ],
                   Placement     |-> self.constraints,
                   Resources     |-> ResourcesToWire(self) ],
               networks      |-> NetworksToWire(self.networks, nets),
               endpoint_spec |-> [ Mode  |-> self.endpoint_mode,
                                   Ports |-> PortsToWire(self.publish) ],
               mode          |-> ModeToWire(self),
               labels        |-> self.labels ]

\* ------------------------------------------------------------------------
\* The docker API, as the module uses it
\* ------------------------------------------------------------------------

\* the record dc.services() lists for a service that was sent as `req`
\* (the result of generate_docker_py_service_description) and now has the
\* given ID and Version.Index. A key the daemon leaves out of the record
\* when empty is held with its empty value: the .get(key, default) of
\* get_service reads the same either way.
ServiceRecord(name, req, id, version) ==
    [ ID       |-> id,
      Version  |-> [ Index |-> version ],
      Spec     |-> [ Name         |-> name,
                     Labels       |-> req.labels,
                     Mode         |-> req.mode,
                     Networks     |-> req.networks,
                     TaskTemplate |->
                       [ ContainerSpec |-> req.task_template.ContainerSpec,
                         RestartPolicy |-> req.task_template.RestartPolicy,
                         Placement     |-> [ Constraints |-> req.task_template.Placement ],
                         Resources     |-> req.task_template.Resources ] ],
      Endpoint |-> [ Spec |-> req.endpoint_spec ] ]

\* the daemon's name filter: a service matches when its name begins with
\* the filter's value
NameFilter(record, name) == IsPrefix(Chars[name], Chars[record.Spec.Name])

\* self.dc.services( filters={'name': name} ) on a swarm that holds the
\* records s and t (each may be None): the listings the daemon may answer
\* with, the matching records in either order
dc_services(s, t, name) ==
    LET hit(r) == IF r = None THEN FALSE ELSE NameFilter(r, name)
    IN  IF hit(s) /\ hit(t) THEN { <<s, t>>, <<t, s>> }
        ELSE IF hit(s) THEN { <<s>> }
        ELSE IF hit(t) THEN { <<t>> }
        ELSE { <<>> }

\* get_networks_names_ids: dc.networks() as a list of {name, id}
get_networks_names_ids(nets) ==
    [i \in 1..Len(nets) |-> [ name |-> nets[i].Name, id |-> nets[i].Id ]]

\* ------------------------------------------------------------------------
\* get_service
\* ------------------------------------------------------------------------

\* float(NanoCPUs)/1000000000, in the cpu unit of the model
CpuFromWire(nano) == nano * CpuTicksPerNano

\* int(MemoryBytes)/1024/1024 (Python 2 integer division)
MemoryFromWire(bytes) == (bytes \div 1024) \div 1024

\* ds.mounts: one {source, type, target} per mount of the record
MountsFromWire(mounts) ==
    [i \in 1..Len(mounts) |->
        [ source |-> mounts[i].Source,
          type   |-> mounts[i].Type,
          target |-> mounts[i].Target ]]

\* ds.publish: one {protocol, published_port, target_port} per port
PortsFromWire(ports) ==
    [i \in 1..Len(ports) |->
        [ protocol       |-> ports[i].Protocol,
          published_port |-> ports[i].PublishedPort,
          target_port    |-> ports[i].TargetPort ]]

\* the attached network ids that no listed network carries: [...][0] raises
UnknownTargets(targets, names_ids) ==
    {i \in 1..Len(targets) : FilterById(names_ids, targets[i].Target) = <<>>}

\* ds.networks: the name of the first listed network with each target id
NetworksFromWire(targets, names_ids) ==
    [i \in 1..Len(targets) |-> FilterById(names_ids, targets[i].Target)[1].name]

\* get_service applied to what dc.services() and dc.networks() returned:
\* None for an empty listing, an exception for an unknown mode or an
\* unknown network id, else the DockerService read from raw_data[0]
get_service(listing, names_ids) ==
    IF Len(listing) = 0 THEN [ raised |-> FALSE, value |-> None ]
    ELSE
    LET raw_data == listing[1]
        tt       == raw_data.Spec.TaskTemplate
        mode     == raw_data.Spec.Mode
    IN  IF ~ ("Replicated" \in DOMAIN mode \/ "Global" \in DOMAIN mode)
        THEN [ raised |-> TRUE, error |-> "Unknown service mode" ]
        ELSE IF UnknownTargets(raw_data.Spec.Networks, names_ids) # {}
        THEN [ raised |-> TRUE, error |-> "IndexError" ]
        ELSE [ raised |-> FALSE,
               value  |->
                 [ DockerService EXCEPT
                     !.image            = tt.ContainerSpec.Image,
                     !.env              = tt.ContainerSpec.Env,
                     !.args             = tt.ContainerSpec.Args,
                     !.constraints      = tt.Placement.Constraints,
                     !.endpoint_mode    = raw_data.Endpoint.Spec.Mode,
                     !.publish          = PortsFromWire(raw_data.Endpoint.Spec.Ports),
                     !.limit_cpu        = CpuFromWire(tt.Resources.Limits.NanoCPUs),
                     !.limit_memory     = MemoryFromWire(tt.Resources.Limits.MemoryBytes),
                     !.reserve_cpu      = CpuFromWire(tt.Resources.Reservations.NanoCPUs),
                     !.reserve_memory   = MemoryFromWire(tt.Resources.Reservations.MemoryBytes),
                     !.labels           = raw_data.Spec.Labels,
                     !.container_labels = tt.ContainerSpec.Labels,
                     !.mode             = IF "Replicated" \in DOMAIN mode
                                          THEN "replicated" ELSE "global",
                     !.replicas         = IF "Replicated" \in DOMAIN mode
                                          THEN mode.Replicated.Replicas
                                          ELSE DockerService.replicas,
                     !.mounts           = MountsFromWire(tt.ContainerSpec.Mounts),
                     !.networks         = NetworksFromWire(raw_data.Spec.Networks, names_ids),
                     !.service_version  = raw_data.Version.Index,
                     !.service_id       = raw_data.ID ] ]

\* ------------------------------------------------------------------------
\* update_service, create_service, remove_service: the request each one
\* hands to docker-py, or the exception raised before any request
\* ------------------------------------------------------------------------

\* update_service that sends the record's version index of the moment
\* instead of the one get_service read
update_service_reread(name, old_service, new_service, names_ids) ==
    LET d == generate_docker_py_service_description(new_service, name, names_ids)
    IN  IF d.raised THEN d
        ELSE [ raised |-> FALSE,
               call   |-> [ op              |-> "update_service",
                            service_id      |-> IF svc = None THEN 0 ELSE svc.ID,
                            service_version |-> IF svc = None THEN 0
                                                ELSE svc.Version.Index,
                            name            |-> name,
                            endpoint_config |-> d.endpoint_spec,
                            networks        |-> d.networks,
                            mode            |-> d.mode,
                            task_template   |-> d.task_template,
                            labels          |-> d.labels ] ]

update_service(name, old_service, new_service, names_ids) ==
    LET d == generate_docker_py_service_description(new_service, name, names_ids)
    IN  IF d.raised THEN d
        ELSE [ raised |-> FALSE,
               call   |-> [ op              |-> "update_service",
                            service_id      |-> old_service.service_id,
                            service_version |-> old_service.service_version,
                            name            |-> name,
                            endpoint_config |-> d.endpoint_spec,
                            networks        |-> d.networks,
                            mode            |-> d.mode,
                            task_template   |-> d.task_template,
                            labels          |-> d.labels ] ]

create_service(name, service, names_ids) ==
    LET d == generate_docker_py_service_description(service, name, names_ids)
    IN  IF d.raised THEN d
        ELSE [ raised |-> FALSE,
               call   |-> [ op              |-> "create_service",
                            name            |-> name,
                            endpoint_config |-> d.endpoint_spec,
                            mode            |-> d.mode,
                            networks        |-> d.networks,
                            task_template   |-> d.task_template,
                            labels          |-> d.labels ] ]

remove_service(name) ==
    [ raised |-> FALSE, call |-> [ op |-> "remove_service", name |-> name ] ]

\* the request fields ServiceRecord reads, from a create or update call
RequestOf(call) ==
    [ task_template |-> call.task_template,
      networks      |-> call.networks,
      endpoint_spec |-> call.endpoint_config,
      mode          |-> call.mode,
      labels        |-> call.labels ]

\* ------------------------------------------------------------------------
\* main: what is reported, and the decision of lines 539-564
\* ------------------------------------------------------------------------

Running ==
    [ kind |-> "running", msg |-> "", changes |-> <<>>, changed |-> FALSE, error |-> "" ]

\* module.exit_json(msg=..., changed=...); `changes` is the list joined into
\* the message, empty for a message without one
exit_json(msg, changes, changed) ==
    [ kind |-> "exit_json", msg |-> msg, changes |-> changes, changed |-> changed,
      error |-> "" ]

\* module.fail_json(msg=...), `error` being the exception text put in msg
fail_json(msg, error) ==
    [ kind |-> "fail_json", msg |-> msg, changes |-> <<>>, changed |-> FALSE,
      error |-> error ]

\* an exception nothing catches: the module dies without a report
Uncaught(error) ==
    [ kind |-> "exception", msg |-> "", changes |-> <<>>, changed |-> FALSE,
      error |-> error ]

\* Guarded without the check_mode test: the call is made in check mode too
GuardedNoCheck(check, next, report) == [ next |-> next, report |-> Running ]

\* `if not module.check_mode: <call>` followed by exit_json(report): the run
\* goes on to the call named by `next`, or in check mode reports at once
Guarded(check, next, report) ==
    IF ~check
    THEN [ next |-> next, report |-> Running ]
    ELSE [ next |-> "done", report |-> report ]

\* DecideCompare with the need_rebuild test left out: every change is
\* applied by an update
DecideCompareUpdateOnly(current, new_service, check) ==
    LET c == compare_services(current, new_service)
    IN  IF c.changed
        THEN Guarded(check, "update",
                     exit_json("service edited (changes: %s)", c.changes, TRUE))
        ELSE [ next |-> "done", report |-> exit_json("service unchanged", <<>>, FALSE) ]

\* DecideCompare with every change applied by a rebuild
DecideCompareRebuildOnly(current, new_service, check) ==
    LET c == compare_services(current, new_service)
    IN  IF c.changed
        THEN Guarded(check, "rebuild_remove",
                     exit_json("rebuild service (changes: %s)", c.changes, TRUE))
        ELSE [ next |-> "done", report |-> exit_json("service unchanged", <<>>, FALSE) ]

\* lines 546-557: a service that exists and is to be present.
\* exit_json(msg="service unchanged") passes no `changed`: it is reported False.
DecideCompare(current, new_service, check) ==
    LET c == compare_services(current, new_service)
    IN  IF c.changed
        THEN IF c.need_recreate
             THEN Guarded(check, "rebuild_remove",
                          exit_json("rebuild service (changes: %s)", c.changes, TRUE))
             ELSE Guarded(check, "update",
                          exit_json("service edited (changes: %s)", c.changes, TRUE))
        ELSE [ next |-> "done", report |-> exit_json("service unchanged", <<>>, FALSE) ]

\* lines 540-564 up to the first mutating call: either the run reports at
\* once (next = "done") or it goes on to the call named by `next`
MainDecision(current, new_service, state, check) ==
    IF current # None
    THEN IF state = "absent"
         THEN Guarded(check, "remove", exit_json("service removed", <<>>, TRUE))
         ELSE DecideCompare(current, new_service, check)
    ELSE IF state = "absent"
         THEN [ next |-> "done", report |-> exit_json("service already absent", <<>>, FALSE) ]
         ELSE Guarded(check, "create", exit_json("service created", <<>>, TRUE))

\* ------------------------------------------------------------------------
\* The inputs of main and the swarm it runs against
\* ------------------------------------------------------------------------

Mount1 == [ source |-> "/swarm_data/mysql_data/", target |-> "/var/lib/mysql",
            type |-> "bind" ]

Port1 == [ protocol |-> "tcp", published_port |-> 3306, target_port |-> 3306 ]

\* argument_spec: the value of every parameter that is not given
ParamDefaults ==
    [ name                    |-> ServiceName,
      image                   |-> "mysql:5.7",
      state                   |-> "present",
      mounts                  |-> <<>>,
      networks                |-> <<>>,
      args                    |-> <<>>,
      env                     |-> <<>>,
      publish                 |-> <<>>,
      constraints             |-> <<>>,
      labels                  |-> {},
      container_labels        |-> {},
      mode                    |-> "replicated",
      replicas                |-> 1,
      endpoint_mode           |-> "vip",
      restart_policy          |-> "none",
      limit_cpu               |-> 0,
      limit_memory            |-> 0,
      reserve_cpu             |-> 0,
      reserve_memory          |-> 0,
      restart_policy_delay    |-> 0,
      restart_policy_attempts |-> 0,
      restart_policy_window   |-> 0 ]

\* EXAMPLES, first task: the mydb service
MyDb ==
    [ ParamDefaults EXCEPT
        !.mounts                  = <<Mount1>>,
        !.publish                 = <<Port1>>,
        !.restart_policy          = "any",
        !.restart_policy_attempts = 5,
        !.restart_policy_window   = 30 ]

\* the desired services main is run with
DesiredSpace ==
    { MyDb,
      [ MyDb EXCEPT !.networks = <<"backend">> ],
      [ MyDb EXCEPT !.networks = <<"missing">> ],
      [ MyDb EXCEPT !.restart_policy = "on-failure" ],
      [ MyDb EXCEPT !.replicas = 2 ],
      [ MyDb EXCEPT !.reserve_cpu = Core \div 2 ],
      [ MyDb EXCEPT !.limit_cpu = Core + 1, !.limit_memory = 512 ],
      [ MyDb EXCEPT !.mode = "global", !.replicas = 3 ] }

\* module.params: each desired service with state present, and state absent
\* (main then reads the name only, so one of them stands for all)
ParamsSpace ==
    DesiredSpace \cup { [ MyDb EXCEPT !.state = "absent" ] }

Backend  == [ Name |-> "backend",  Id |-> "net-b" ]
Frontend == [ Name |-> "frontend", Id |-> "net-f" ]

\* ids and version indexes are opaque tokens: a new one is any token that
\* differs from the ones still in somebody's hands
FreshId(held) == CHOOSE i \in 1..2 : i # held

\* the id of the sibling: a token of its own
SiblingId == 3

FreshVersion(held, current) == CHOOSE v \in 1..3 : v # held /\ v # current

HeldId == IF current_service = None THEN 0 ELSE current_service.service_id

HeldVersion == IF current_service = None THEN 0 ELSE current_service.service_version

\* ------------------------------------------------------------------------
\* The docker daemon's answer to each mutating request
\* ------------------------------------------------------------------------

\* dc.create_service: refused when the name is taken
dc_create_service(s, call) ==
    IF s # None
    THEN [ raised |-> TRUE, error |-> "name conflicts with an existing object", svc |-> s ]
    ELSE [ raised |-> FALSE, error |-> "",
           svc    |-> ServiceRecord(call.name, RequestOf(call), FreshId(HeldId),
                                    FreshVersion(HeldVersion, 0)) ]

\* dc.update_service: refused when the id is unknown or the version index
\* is not the record's current one
dc_update_service(s, call) ==
    IF s = None \/ s.ID # call.service_id
    THEN [ raised |-> TRUE, error |-> "service not found", svc |-> s ]
    ELSE IF s.Version.Index # call.service_version
    THEN [ raised |-> TRUE, error |-> "update out of sequence", svc |-> s ]
    ELSE [ raised |-> FALSE, error |-> "",
           svc    |-> ServiceRecord(call.name, RequestOf(call), s.ID,
                                    FreshVersion(HeldVersion, s.Version.Index)) ]

\* dc.update_service on the swarm: the id names the sibling when it is the
\* sibling's, and the daemon does not rename a service
dc_update_service_swarm(s, t, call) ==
    IF t # None /\ call.service_id = t.ID /\ call.name # t.Spec.Name
    THEN [ raised |-> TRUE, error |-> "renaming services is not supported", svc |-> s ]
    ELSE dc_update_service(s, call)

\* dc.remove_service that refuses a record whose version index is no longer
\* the one get_service read
dc_remove_service_guarded(s, call) ==
    IF s = None
    THEN [ raised |-> TRUE, error |-> "service not found", svc |-> s ]
    ELSE IF fetched # None /\ s.Version.Index # fetched.Version.Index
    THEN [ raised |-> TRUE, error |-> "update out of sequence", svc |-> s ]
    ELSE [ raised |-> FALSE, error |-> "", svc |-> None ]

\* dc.remove_service: by name
dc_remove_service(s, call) ==
    IF s = None
    THEN [ raised |-> TRUE, error |-> "service not found", svc |-> s ]
    ELSE [ raised |-> FALSE, error |-> "", svc |-> None ]

\* ------------------------------------------------------------------------
\* main, one docker API round trip per step
\* ------------------------------------------------------------------------

Init ==
    /\ svc = None
    /\ sibling = None
    /\ docker_networks = <<Backend>>
    /\ pc = "done"
    /\ params = MyDb
    /\ check_mode = FALSE
    /\ current_service = None
    /\ calls = <<>>
    /\ result = Running
    /\ fetched = None
    /\ removed = None
    /\ prev = None
    /\ tainted = 0
    /\ s1 = DockerService
    /\ s2 = DockerService
    /\ out = [ op |-> "none" ]

\* the run that just ended, as a run with parameters p remembers it
Finished(p) ==
    IF tainted > 0 \/ result.kind = "running" \/ p # params THEN None
    ELSE [ check_mode |-> check_mode, result |-> result ]

\* lines 497-530: a new run of the module with its parameters
MainStart ==
    /\ pc = "done"
    /\ \E p \in ParamsSpace, chk \in BOOLEAN :
          /\ params' = p
          /\ check_mode' = chk
          /\ prev' = Finished(p)
    /\ pc' = "get_service"
    /\ current_service' = None
    /\ calls' = <<>>
    /\ result' = Running
    /\ fetched' = None
    /\ removed' = None
    /\ tainted' = 0
    /\ UNCHANGED <<svc, sibling, docker_networks, probeVars>>

\* lines 532-564 up to the first mutating call: get_service, then the
\* decision. `up` is whether the daemon answers the listing.
MainGetService ==
    /\ pc = "get_service"
    /\ \E up \in BOOLEAN, listing \in dc_services(svc, sibling, params.name) :
        LET r == get_service(listing, get_networks_names_ids(docker_networks))
        IN  IF ~up \/ r.raised
            THEN /\ result' = fail_json("Error looking for service named %s: %s",
                                        IF ~up THEN "transport" ELSE r.error)
                 /\ pc' = "done"
                 /\ UNCHANGED <<current_service, fetched>>
            ELSE LET d == MainDecision(r.value, service_from_params(params),
                                       params.state, check_mode)
                 IN  /\ current_service' = r.value
                     /\ fetched' = IF listing = <<>> THEN None ELSE listing[1]
                     /\ pc' = d.next
                     /\ result' = d.report
    /\ UNCHANGED <<svc, sibling, docker_networks, params, check_mode, calls, removed,
                   prev, tainted, probeVars>>

\* RemoveStep that passes over a failed call and goes on as if it succeeded
RemoveStepIgnore(next, report) ==
    \E up \in BOOLEAN :
        LET c == remove_service(params.name).call
            a == dc_remove_service(svc, c)
        IN  /\ calls' = Append(calls, c)
            /\ svc' = IF ~up \/ a.raised THEN svc ELSE a.svc
            /\ removed' = IF ~up \/ a.raised THEN removed ELSE svc
            /\ result' = report
            /\ pc' = next

\* dsm.remove_service(name), then what follows it: `report` on success and
\* `next` as the place to go on from
RemoveStep(next, report) ==
    \E up \in BOOLEAN :
        LET c == remove_service(params.name).call
            a == dc_remove_service(svc, c)
        IN  /\ calls' = Append(calls, c)
            /\ IF ~up \/ a.raised
               THEN /\ result' = Uncaught(IF ~up THEN "transport" ELSE a.error)
                    /\ pc' = "done"
                    /\ UNCHANGED <<svc, removed>>
               ELSE /\ svc' = a.svc
                    /\ removed' = svc
                    /\ result' = report
                    /\ pc' = next

\* CreateStep with a try/except around the call that goes on to the report
CreateStepSwallow(report) ==
    \E fault \in {"none", "networks", "request"} :
        LET r == create_service(params.name, service_from_params(params),
                                get_networks_names_ids(docker_networks))
        IN  /\ pc' = "done"
            /\ result' = report
            /\ IF fault = "networks" \/ r.raised
               THEN UNCHANGED <<svc, calls>>
               ELSE LET a == dc_create_service(svc, r.call)
                    IN  /\ calls' = Append(calls, r.call)
                        /\ svc' = IF fault = "request" \/ a.raised THEN svc ELSE a.svc

\* dsm.create_service(name, new_service), then exit_json(report). `fault`
\* is the API round trip the daemon does not answer, if any.
CreateStep(report) ==
    \E fault \in {"none", "networks", "request"} :
        LET r == create_service(params.name, service_from_params(params),
                                get_networks_names_ids(docker_networks))
        IN  IF fault = "networks" \/ r.raised
            THEN /\ result' = Uncaught(IF fault = "networks" THEN "transport" ELSE r.error)
                 /\ pc' = "done"
                 /\ UNCHANGED <<svc, calls>>
            ELSE LET a == dc_create_service(svc, r.call)
                 IN  /\ calls' = Append(calls, r.call)
                     /\ pc' = "done"
                     /\ IF fault = "request" \/ a.raised
                        THEN /\ result' = Uncaught(IF fault = "request" THEN "transport"
                                                   ELSE a.error)
                             /\ UNCHANGED svc
                        ELSE /\ svc' = a.svc
                             /\ result' = report

\* the report of lines 552 and 556: the changes of the comparison at 546
ChangesReport(msg) ==
    exit_json(msg, compare_services(current_service, service_from_params(params)).changes,
              TRUE)

\* lines 542-544, state absent and not check_mode
MainRemove ==
    /\ pc = "remove"
    /\ RemoveStep("done", exit_json("service removed", <<>>, TRUE))
    /\ UNCHANGED <<sibling, docker_networks, params, check_mode, current_service,
                   fetched, prev, tainted, probeVars>>

\* line 550: the first half of a rebuild
MainRebuildRemove ==
    /\ pc = "rebuild_remove"
    /\ RemoveStep("rebuild_create", Running)
    /\ UNCHANGED <<sibling, docker_networks, params, check_mode, current_service,
                   fetched, prev, tainted, probeVars>>

\* lines 551-552: the second half of a rebuild
MainRebuildCreate ==
    /\ pc = "rebuild_create"
    /\ CreateStep(ChangesReport("rebuild service (changes: %s)"))
    /\ UNCHANGED removed
    /\ UNCHANGED <<sibling, docker_networks, params, check_mode, current_service,
                   fetched, prev, tainted, probeVars>>

\* lines 562-564
MainCreate ==
    /\ pc = "create"
    /\ CreateStep(exit_json("service created", <<>>, TRUE))
    /\ UNCHANGED removed
    /\ UNCHANGED <<sibling, docker_networks, params, check_mode, current_service,
                   fetched, prev, tainted, probeVars>>

\* lines 554-556: dsm.update_service(name, current_service, new_service)
MainUpdate ==
    /\ pc = "update"
    /\ \E fault \in {"none", "networks", "request"} :
        LET r == update_service(params.name, current_service, service_from_params(params),
                                get_networks_names_ids(docker_networks))
        IN  IF fault = "networks" \/ r.raised
            THEN /\ result' = Uncaught(IF fault = "networks" THEN "transport" ELSE r.error)
                 /\ UNCHANGED <<svc, calls>>
            ELSE LET a == dc_update_service_swarm(svc, sibling, r.call)
                 IN  /\ calls' = Append(calls, r.call)
                     /\ IF fault = "request" \/ a.raised
                        THEN /\ result' = Uncaught(IF fault = "request" THEN "transport"
                                                   ELSE a.error)
                             /\ UNCHANGED svc
                        ELSE /\ svc' = a.svc
                             /\ result' = ChangesReport("service edited (changes: %s)")
    /\ pc' = "done"
    /\ UNCHANGED <<sibling, docker_networks, params, check_mode, current_service,
                   fetched, removed, prev, tainted, probeVars>>

\* ------------------------------------------------------------------------
\* The other users of the swarm
\* ------------------------------------------------------------------------

\* what somebody else creates the service as
OtherSpace == { MyDb, [ MyDb EXCEPT !.networks = <<"backend">>, !.replicas = 2 ] }

\* they act while a run is under way (between two runs is the same as
\* before the run's first request)
Interfered ==
    /\ pc # "done"
    /\ tainted < MaxOther
    /\ prev' = None
    /\ tainted' = tainted + 1
    /\ UNCHANGED <<mainVars, fetched, removed, probeVars>>

\* docker service update by somebody else: the record moves to a new
\* version index
OtherUpdate ==
    /\ svc # None
    /\ svc' = [ svc EXCEPT
                  !.Version.Index = FreshVersion(HeldVersion, svc.Version.Index),
                  !.Spec.TaskTemplate.ContainerSpec.Env =
                      IF @ = <<>> THEN <<"DEBUG=1">> ELSE <<>> ]
    /\ UNCHANGED <<sibling, docker_networks>>
    /\ Interfered

\* docker service rm by somebody else
OtherRemove ==
    /\ svc # None
    /\ svc' = None
    /\ UNCHANGED <<sibling, docker_networks>>
    /\ Interfered

\* docker service create by somebody else
OtherCreate ==
    /\ svc = None
    /\ \E d \in OtherSpace :
        LET r == create_service(ServiceName, service_from_params(d),
                                get_networks_names_ids(docker_networks))
        IN  /\ ~ r.raised
            /\ svc' = dc_create_service(svc, r.call).svc
    /\ UNCHANGED <<sibling, docker_networks>>
    /\ Interfered

\* docker network rm backend: refused while a service is attached
NetworkRemove ==
    /\ docker_networks = <<Backend>>
    /\ IF svc = None THEN TRUE
       ELSE \A i \in 1..Len(svc.Spec.Networks) :
               svc.Spec.Networks[i].Target # Backend.Id
    /\ docker_networks' = <<>>
    /\ UNCHANGED <<svc, sibling>>
    /\ Interfered

\* docker network create backend
NetworkCreate ==
    /\ docker_networks = <<>>
    /\ docker_networks' = <<Backend>>
    /\ UNCHANGED <<svc, sibling>>
    /\ Interfered

\* the record of the sibling: the mydb service under the name SiblingName,
\* with an id and a version index of its own
SiblingRecord ==
    ServiceRecord(SiblingName,
                  RequestOf(create_service(SiblingName, service_from_params(MyDb),
                                           <<>>).call),
                  SiblingId, 1)

\* docker service create mydb2 by somebody else
SiblingCreate ==
    /\ sibling = None
    /\ sibling' = SiblingRecord
    /\ UNCHANGED <<svc, docker_networks>>
    /\ Interfered

\* docker service rm mydb2 by somebody else
SiblingRemove ==
    /\ sibling # None
    /\ sibling' = None
    /\ UNCHANGED <<svc, docker_networks>>
    /\ Interfered

Next ==
    \/ MainStart
    \/ MainGetService
    \/ MainRemove
    \/ MainRebuildRemove
    \/ MainRebuildCreate
    \/ MainCreate
    \/ MainUpdate
    \/ OtherUpdate
    \/ OtherRemove
    \/ OtherCreate
    \/ NetworkRemove
    \/ NetworkCreate
    \/ SiblingCreate
    \/ SiblingRemove

Spec == Init /\ [][Next]_vars

\* ------------------------------------------------------------------------
\* compare_services, the translation and the decision applied to values
\* drawn from a space of DockerService values
\* ------------------------------------------------------------------------

\* the mydb service as get_service reads it back
ProbeBase ==
    [ service_from_params(MyDb) EXCEPT !.service_id = 1, !.service_version = 1 ]

\* other values of each field
Alt ==
    [ image                   |-> {"mysql:8"},
      args                    |-> {<<"--verbose">>},
      endpoint_mode           |-> {"dnsrr"},
      env                     |-> {<<"A=1", "B=2">>, <<"B=2", "A=1">>},
      labels                  |-> {{<<"tier", "db">>}},
      container_labels        |-> {{<<"role", "db">>}},
      limit_cpu               |-> {Core \div 2, Core + 1},
      limit_memory            |-> {512},
      reserve_cpu             |-> {Core \div 4},
      reserve_memory          |-> {256},
      mode                    |-> {"global"},
      mounts                  |-> {<<>>},
      constraints             |-> {<<"node.role==manager">>},
      networks                |-> {<<"backend">>, <<"backend", "frontend">>,
                                   <<"frontend", "backend">>, <<"backend", "missing">>},
      publish                 |-> {<<>>},
      replicas                |-> {3},
      service_id              |-> {0, 2},
      service_version         |-> {0, 2},
      restart_policy          |-> {"on-failure"},
      restart_policy_attempts |-> {3},
      restart_policy_delay    |-> {10},
      restart_policy_window   |-> {60} ]

\* the values one field away from a value of S
Vary(S) ==
    S \cup UNION { UNION { { [ s EXCEPT ![f] = v ] : v \in Alt[f] } : f \in DOMAIN Alt }
                   : s \in S }

RECURSIVE Variants(_)
Variants(k) == IF k = 0 THEN {ProbeBase} ELSE Vary(Variants(k - 1))

\* the dc.networks() listings the translation is given
NetLists ==
    { <<>>, <<Backend, Frontend>>,
      <<Frontend, [ Name |-> "backend", Id |-> "net-b2" ], Backend>> }

ProbeInit ==
    /\ svc = None
    /\ sibling = None
    /\ docker_networks = <<Backend>>
    /\ pc = "done"
    /\ params = MyDb
    /\ check_mode = FALSE
    /\ current_service = None
    /\ calls = <<>>
    /\ result = Running
    /\ fetched = None
    /\ removed = None
    /\ prev = None
    /\ tainted = 0
    /\ s1 \in Variants(1)
    /\ s2 \in Variants(MaxChanged)
    /\ out = [ op |-> "none" ]

\* one function is applied to each drawn pair
Frame ==
    /\ out.op = "none"
    /\ UNCHANGED <<svc, sibling, docker_networks, mainVars, fetched, removed, prev,
                   tainted, s1, s2>>

\* compare_services(s1, s2)
ProbeCompare ==
    /\ out' = [ op |-> "compare_services", res |-> compare_services(s1, s2) ]
    /\ Frame

\* s2.generate_docker_py_service_description(name, nets); the old service
\* plays no part in it, so it is left at the base value
ProbeGenerate ==
    /\ s1 = ProbeBase
    /\ \E nets \in NetLists :
          out' = [ op   |-> "generate_docker_py_service_description",
                   nets |-> nets,
                   res  |-> generate_docker_py_service_description(
                                s2, ServiceName, get_networks_names_ids(nets)) ]
    /\ Frame

\* create_service(name, s2) and update_service(name, s1, s2)
ProbeRequest ==
    /\ s1 = ProbeBase
    /\ \E nets \in NetLists :
          \/ out' = [ op   |-> "create_service",
                      nets |-> nets,
                      res  |-> create_service(ServiceName, s2,
                                              get_networks_names_ids(nets)) ]
          \/ out' = [ op   |-> "update_service",
                      nets |-> nets,
                      res  |-> update_service(ServiceName, s1, s2,
                                              get_networks_names_ids(nets)) ]
    /\ Frame

\* lines 539-564 with current_service = s1 and new_service = s2
ProbeMain ==
    /\ \E st \in {"present", "absent"}, chk \in BOOLEAN :
          out' = [ op    |-> "main",
                   state |-> st,
                   check |-> chk,
                   res   |-> MainDecision(s1, s2, st, chk) ]
    /\ Frame

ProbeNext ==
    \/ ProbeCompare
    \/ ProbeGenerate
    \/ ProbeRequest
    \/ ProbeMain

ProbeSpec == ProbeInit /\ [][ProbeNext]_vars

\* ------------------------------------------------------------------------
\* Properties
\* ------------------------------------------------------------------------

Range(seq) == {seq[i] : i \in 1..Len(seq)}

\* the names of the mutating calls issued so far
Ops == [i \in 1..Len(calls) |-> calls[i].op]

\* the table of spec section 4.4, with the report of section 6
TableRow(actual, lifecycle, diff) ==
    IF actual = None
    THEN IF lifecycle = "absent"
         THEN [ ops |-> <<>>, msg |-> "service already absent", changed |-> FALSE,
                changes |-> <<>> ]
         ELSE [ ops |-> <<"create_service">>, msg |-> "service created",
                changed |-> TRUE, changes |-> <<>> ]
    ELSE IF lifecycle = "absent"
         THEN [ ops |-> <<"remove_service">>, msg |-> "service removed",
                changed |-> TRUE, changes |-> <<>> ]
         ELSE IF ~ diff.changed
              THEN [ ops |-> <<>>, msg |-> "service unchanged", changed |-> FALSE,
                     changes |-> <<>> ]
              ELSE IF ~ diff.need_recreate
                   THEN [ ops |-> <<"update_service">>,
                          msg |-> "service edited (changes: %s)",
                          changed |-> TRUE, changes |-> diff.changes ]
                   ELSE [ ops |-> <<"remove_service", "create_service">>,
                          msg |-> "rebuild service (changes: %s)",
                          changed |-> TRUE, changes |-> diff.changes ]

\* the row of the table this run is in, once get_service has answered
RowOfRun ==
    TableRow(current_service, params.state,
             IF current_service = None THEN compare_services(DockerService, DockerService)
             ELSE compare_services(current_service, service_from_params(params)))

\* C1: a run that is not in check mode issues the mutating calls of its row
\* of the table, in that order and no others (a prefix of them while it is
\* under way or when a call failed), and a run that reports success has
\* issued exactly those calls and reports the row's message and changed flag.
C1_TableFollowed ==
    (~ check_mode /\ pc # "get_service" /\ result.kind # "fail_json") =>
        /\ IsPrefix(Ops, RowOfRun.ops)
        /\ result.kind = "exit_json" =>
              /\ Ops = RowOfRun.ops
              /\ result.msg = RowOfRun.msg
              /\ result.changed = RowOfRun.changed
              /\ result.changes = RowOfRun.changes

\* C1 witness: a rebuild carried out: remove then create, and its message
C1_Witness ==
    /\ ~ check_mode
    /\ pc = "done"
    /\ result.kind = "exit_json"
    /\ result.msg = "rebuild service (changes: %s)"
    /\ Ops = <<"remove_service", "create_service">>

\* the run repeats the parameters of the run before it, which nobody
\* disturbed, and nobody has disturbed this one; it has ended, and the
\* daemon answered every request of both runs
RepeatedRun ==
    /\ pc = "done"
    /\ prev # None
    /\ tainted = 0
    /\ result.kind # "running"
    /\ result.error # "transport"
    /\ prev.result.error # "transport"

\* C2: when a run that was not in check mode created, updated or rebuilt
\* the service and reported success, the next run with the same parameters
\* reports "service unchanged" and issues no mutating call. (Stated for the
\* services in replicated mode, the mode of the mydb scenario.)
C2_ReapplyConverges ==
    ( /\ RepeatedRun
      /\ params.state = "present"
      /\ params.mode = "replicated"
      /\ ~ prev.check_mode
      /\ prev.result.kind = "exit_json"
      /\ prev.result.changed )
    => /\ result.kind = "exit_json"
       /\ result.msg = "service unchanged"
       /\ calls = <<>>

\* C3: a run in check mode issues no mutating call, leaves the service
\* record as it is at every step, and ends right after get_service.
C3_DryRunNoMutation ==
    [][ /\ check_mode' => calls' = <<>>
        /\ (check_mode /\ pc # "done" /\ pc' # pc) => (svc' = svc /\ pc' = "done")
      ]_vars

\* C3 witness: a check-mode run that reported a rebuild of a live service
C3_Witness ==
    /\ check_mode
    /\ pc = "done"
    /\ result.msg = "rebuild service (changes: %s)"
    /\ svc # None
    /\ svc = fetched

\* C4: a run that is not in check mode reports what the check-mode run
\* before it, from the same state and with the same parameters, reported.
C4_DryRunPredicts ==
    ( /\ RepeatedRun
      /\ prev.check_mode
      /\ ~ check_mode )
    => result = prev.result

\* the request of this step's update is refused: the record is gone, is
\* another service, or has moved to another version index
StaleAtUpdate ==
    \/ svc = None
    \/ svc.ID # fetched.ID
    \/ svc.Version.Index # fetched.Version.Index

\* C5: every update call carries the id and the version index get_service
\* read; an update whose version index is stale leaves the record as the
\* other actor made it, ends the run with an exception (a conflict when
\* the record only moved to another version) and is not tried again.
C5_OptimisticUpdate ==
    [][ /\ \A i \in 1..Len(calls') :
              calls'[i].op = "update_service" =>
                  /\ fetched' # None
                  /\ calls'[i].service_id = fetched'.ID
                  /\ calls'[i].service_version = fetched'.Version.Index
        /\ (pc = "update" /\ pc' # pc /\ StaleAtUpdate) =>
              /\ svc' = svc
              /\ pc' = "done"
              /\ result'.kind = "exception"
              /\ Len(calls') <= 1
              /\ (svc # None /\ svc.ID = fetched.ID /\ result'.error # "transport")
                    => result'.error = "update out of sequence"
      ]_vars

\* C5 witness: an update refused as out of sequence, the other actor's
\* change still in the record
C5_Witness ==
    /\ pc = "done"
    /\ Ops = <<"update_service">>
    /\ result.kind = "exception"
    /\ result.error = "update out of sequence"
    /\ svc # None
    /\ svc.Spec.TaskTemplate.ContainerSpec.Env = <<"DEBUG=1">>

\* C6: in a rebuild, once remove has succeeded the service is absent (as
\* long as nobody else creates it); the create step either creates it and
\* reports the rebuild, or fails: then it leaves the swarm as it is, issues
\* at most the one create call, and the run ends with an exception instead
\* of a report.
C6_NoRollback ==
    [][ /\ (pc' = "rebuild_create" /\ tainted' = 0) => svc' = None
        /\ (pc = "rebuild_create" /\ pc' # pc) =>
              /\ pc' = "done"
              /\ IF svc' # svc
                 THEN /\ result'.kind = "exit_json"
                      /\ calls' = Append(calls, calls'[Len(calls')])
                      /\ calls'[Len(calls')].op = "create_service"
                 ELSE /\ result'.kind = "exception"
                      /\ \/ calls' = calls
                         \/ /\ calls' = Append(calls, calls'[Len(calls')])
                            /\ calls'[Len(calls')].op = "create_service"
      ]_vars

\* C6 witness: remove succeeded, the translation for create failed, and
\* the run ended with the service absent
C6_Witness ==
    /\ pc = "done"
    /\ Ops = <<"remove_service">>
    /\ fetched # None
    /\ params.state = "present"
    /\ result.kind = "exception"
    /\ result.error = "no docker networks named"
    /\ svc = None

\* the fields of spec section 3 other than name and the identity fields
ComparedBySpec ==
    { "image", "args", "env", "labels", "container_labels", "mode", "replicas",
      "endpoint_mode", "publish", "mounts", "networks", "constraints", "limit_cpu",
      "reserve_cpu", "limit_memory", "reserve_memory", "restart_policy",
      "restart_policy_delay", "restart_policy_attempts", "restart_policy_window" }

\* the fields of ComparedBySpec in which two values differ
Differing(a, b) == { f \in ComparedBySpec : a[f] # b[f] }

\* C7: compare_services reports every field of section 3 in which the two
\* services differ: changed is true and the field's name is in the changes.
C7_EveryFieldCompared ==
    out.op = "compare_services" =>
        \A f \in Differing(s1, s2) :
            /\ out.res.changed
            /\ f \in Range(out.res.changes)

\* C8: need_recreate is true exactly when the networks differ; services that
\* differ in networks only give the one change "networks", and main then
\* rebuilds (in check mode it reports the rebuild, else it goes on to the
\* remove of the rebuild); services whose networks agree are never rebuilt.
C8_NetworkClassification ==
    /\ out.op = "compare_services" =>
          /\ out.res.need_recreate = (s1.networks # s2.networks)
          /\ Differing(s1, s2) = {"networks"} =>
                /\ out.res.changed
                /\ out.res.changes = <<"networks">>
    /\ (out.op = "main" /\ out.state = "present") =>
          /\ Differing(s1, s2) = {"networks"} =>
                IF out.check
                THEN /\ out.res.next = "done"
                     /\ out.res.report = exit_json("rebuild service (changes: %s)",
                                                   <<"networks">>, TRUE)
                ELSE out.res.next = "rebuild_remove"
          /\ s1.networks = s2.networks =>
                /\ out.res.next # "rebuild_remove"
                /\ out.res.report.msg # "rebuild service (changes: %s)"

\* C8 witness: the decision for a service without networks that is to be
\* attached to backend and is otherwise the same
C8_Witness ==
    /\ out.op = "main"
    /\ out.state = "present"
    /\ out.check
    /\ s1.networks = <<>>
    /\ s2.networks = <<"backend">>
    /\ Differing(s1, s2) = {"networks"}
    /\ out.res.report.msg = "rebuild service (changes: %s)"
    /\ out.res.report.changes = <<"networks">>

\* C9: services that agree in every field other than the identity fields,
\* a service and itself among them, compare as unchanged: changed is false,
\* the changes are empty and need_recreate is false.
C9_DiffIdempotent ==
    (out.op = "compare_services" /\ Differing(s1, s2) = {}) =>
        /\ ~ out.res.changed
        /\ out.res.changes = <<>>
        /\ ~ out.res.need_recreate

\* C9 witness: two services compared that differ in the version index only
C9_Witness ==
    /\ out.op = "compare_services"
    /\ Differing(s1, s2) = {}
    /\ s1.service_version # s2.service_version
    /\ s1.service_id = s2.service_id
    /\ ~ out.res.changed

\* the ids of the listed networks of a name
IdsNamed(name, nets) ==
    { nets[i].Id : i \in { j \in 1..Len(nets) : nets[j].Name = name } }

\* C10: when every name of self.networks is the name of a listed network,
\* the translation gives one target per name, in the order of the names,
\* each the id of a listed network of that name; when some name is not
\* listed, the translation raises "no docker networks named" for a name that
\* is not listed, and create_service and update_service raise it too,
\* building no request.
C10_NetworkResolution ==
    out.op \in {"generate_docker_py_service_description", "create_service",
                "update_service"} =>
        LET names == s2.networks
            r     == out.res
        IN  IF \A i \in 1..Len(names) : IdsNamed(names[i], out.nets) # {}
            THEN /\ ~ r.raised
                 /\ LET targets == IF out.op = "generate_docker_py_service_description"
                                   THEN r.networks ELSE r.call.networks
                    IN  /\ Len(targets) = Len(names)
                        /\ \A i \in 1..Len(names) :
                              targets[i].Target \in IdsNamed(names[i], out.nets)
            ELSE /\ r.raised
                 /\ r.error = "no docker networks named"
                 /\ r.arg \in Range(names)
                 /\ IdsNamed(r.arg, out.nets) = {}
                 /\ "call" \notin DOMAIN r
                 /\ "networks" \notin DOMAIN r

\* C10 witness: create_service for the networks backend (listed) and
\* missing (not listed) raised for missing
C10_Witness ==
    /\ out.op = "create_service"
    /\ s2.networks = <<"backend", "missing">>
    /\ IdsNamed("backend", out.nets) # {}
    /\ out.res.raised
    /\ out.res.arg = "missing"

\* the wire resources of the translation of s2, when it did not raise
WireResources == out.res.task_template.Resources

\* a wire number of nano-cores that is the cpu value, to within the one
\* nano-core a conversion to an integer may move it
IsNanoOf(nano, cpu) ==
    /\ (nano - 1) * CpuTicksPerNano < cpu
    /\ cpu < (nano + 1) * CpuTicksPerNano

\* C11: the translation computes the reservations from the reserve_* fields:
\* Reservations.MemoryBytes is reserve_memory * 1024 * 1024 and
\* Reservations.NanoCPUs is reserve_cpu * 1e9, whatever limit_cpu and
\* limit_memory are.
C11_ReservationsFromReserve ==
    (out.op = "generate_docker_py_service_description" /\ ~ out.res.raised) =>
        /\ WireResources.Reservations.MemoryBytes = s2.reserve_memory * 1024 * 1024
        /\ IsNanoOf(WireResources.Reservations.NanoCPUs, s2.reserve_cpu)

\* C12: get_service returns None exactly when the listing is answered and
\* the swarm holds no service of the name asked for, and main then goes on
\* with no current service; when get_service fails, the run ends at once
\* with "Error looking for service named", having issued no call, and
\* reports neither "service created" nor "service already absent".
C12_AbsentNotError ==
    [][ (pc = "get_service" /\ pc' # pc) =>
            IF result'.kind = "fail_json"
            THEN /\ pc' = "done"
                 /\ calls' = <<>>
                 /\ result'.msg = "Error looking for service named %s: %s"
                 /\ svc' = svc
            ELSE (current_service' = None) <=> (svc = None)
      ]_vars

\* the steps of main that issue a mutating call
MutatingSteps == {"remove", "rebuild_remove", "rebuild_create", "create", "update"}

\* the messages of a run that succeeded
SuccessMessages ==
    { "service removed", "service already absent", "service created",
      "service unchanged", "service edited (changes: %s)",
      "rebuild service (changes: %s)" }

\* how often the run has issued the call named op
TimesIssued(cs, op) == Cardinality({ i \in 1..Len(cs) : cs[i].op = op })

\* C13: a step of main whose call or translation failed (it left the
\* service record as it was) ends the run with an exception and adds at
\* most the one call that failed; a run that failed reports no success
\* message and no change; a run that has ended issues no further call; and
\* a run issues each of create, update and remove at most once.
C13_NoSwallowNoRetry ==
    [][ /\ (pc \in MutatingSteps /\ pc' # pc /\ svc' = svc) =>
              /\ pc' = "done"
              /\ result'.kind = "exception"
              /\ Len(calls') <= Len(calls) + 1
        /\ result'.kind \in {"fail_json", "exception"} =>
              /\ pc' = "done"
              /\ result'.msg \notin SuccessMessages
              /\ ~ result'.changed
        /\ (pc = "done" /\ pc' = "done") => calls' = calls
        /\ \A op \in {"create_service", "update_service", "remove_service"} :
              TimesIssued(calls', op) <= 1
      ]_vars

\* C13 witness: the remove of a rebuild failed because somebody else had
\* removed the service; the run ended there, with no create
C13_Witness ==
    /\ pc = "done"
    /\ params.state = "present"
    /\ fetched # None
    /\ fetched.Spec.Name = params.name
    /\ Ops = <<"remove_service">>
    /\ result.kind = "exception"
    /\ result.error = "service not found"
    /\ svc = None

\* round(cpu * 1e9): the nearest whole number of nano-cores
RoundNano(cpu) ==
    (cpu \div CpuTicksPerNano)
      + (IF 2 * (cpu % CpuTicksPerNano) >= CpuTicksPerNano THEN 1 ELSE 0)

\* the service read back from the record of a service created from the
\* translation of s2
ReadBack ==
    get_service(<<ServiceRecord(ServiceName, out.res, 1, 1)>>,
                get_networks_names_ids(out.nets))

\* C14: the translation gives Limits.MemoryBytes = limit_memory * 1024 * 1024
\* and Limits.NanoCPUs = round(limit_cpu * 1e9), and get_service on a service
\* created from it reads the same limit_memory and limit_cpu back.
C14_LimitConversion ==
    (out.op = "generate_docker_py_service_description" /\ ~ out.res.raised) =>
        /\ WireResources.Limits.MemoryBytes = s2.limit_memory * 1024 * 1024
        /\ WireResources.Limits.NanoCPUs = RoundNano(s2.limit_cpu)
        /\ ~ ReadBack.raised
        /\ ReadBack.value.limit_memory = s2.limit_memory
        /\ ReadBack.value.limit_cpu = s2.limit_cpu

\* s1 and s2 are both in global mode and differ in replicas only
GlobalReplicasOnly ==
    /\ s1.mode = "global"
    /\ s2.mode = "global"
    /\ Differing(s1, s2) = {"replicas"}

\* C15: for two services in global mode that differ in replicas only,
\* compare_services returns changed = false with no changes, and main, for
\* such a current and desired service, reports "service unchanged".
C15_ReplicasIgnoredInGlobal ==
    /\ (out.op = "compare_services" /\ GlobalReplicasOnly) =>
          /\ ~ out.res.changed
          /\ out.res.changes = <<>>
    /\ (out.op = "main" /\ out.state = "present" /\ GlobalReplicasOnly) =>
          /\ out.res.next = "done"
          /\ out.res.report.msg = "service unchanged"

\* the field order named by the statement
FieldOrder ==
    << "endpoint_mode", "env", "mode", "mounts", "networks", "replicas", "args",
       "constraints", "labels", "limit_cpu", "limit_memory", "reserve_cpu",
       "reserve_memory", "container_labels", "publish" >>

\* the fields of FieldOrder in which a and b differ, in that order
DifferingInOrder(a, b) ==
    LET differs(f) == a[f] # b[f]
    IN  SelectSeq(FieldOrder, differs)

\* C16: the changes of compare_services are the fields of the fixed order in
\* which the two services differ, each once and in that order, whatever the
\* values; changed is true exactly when the changes are not empty; and the
\* report of main that names changes lists them as compare_services gave them.
\* (The fields outside the fixed order are the matter of C7.)
C16_DiffShape ==
    /\ out.op = "compare_services" =>
          /\ out.res.changes = DifferingInOrder(s1, s2)
          /\ out.res.changed = (out.res.changes # <<>>)
    /\ (out.op = "main" /\ out.res.next = "done" /\ out.state = "present") =>
          /\ out.res.report.changes = IF out.check THEN DifferingInOrder(s1, s2) ELSE <<>>
          /\ (out.res.report.msg = "service unchanged") = (DifferingInOrder(s1, s2) = <<>>)

\* C16 witness: a check-mode decision for services that differ in
\* endpoint_mode and env, reported in that order
C16_Witness ==
    /\ out.op = "main"
    /\ out.check
    /\ out.state = "present"
    /\ s1.env # s2.env
    /\ s1.endpoint_mode # s2.endpoint_mode
    /\ out.res.report.msg = "service edited (changes: %s)"
    /\ out.res.report.changes = <<"endpoint_mode", "env">>

\* C17: a run issues a remove call only when it is not in check mode,
\* get_service returned a service, and either state is absent or the
\* networks of that service differ from the desired ones; a step of a run
\* whose current service has the desired networks (state present) leaves
\* the service in place under the id it had.
C17_RemoveOnlyWhenAsked ==
    [][ /\ TimesIssued(calls', "remove_service") > 0 =>
              /\ ~ check_mode'
              /\ current_service' # None
              /\ \/ params'.state = "absent"
                 \/ current_service'.networks # params'.networks
        /\ ( /\ pc' # pc
             /\ pc # "done"
             /\ current_service' # None
             /\ params.state = "present"
             /\ current_service'.networks = params.networks
             /\ svc # None )
           => /\ svc' # None
              /\ svc'.ID = svc.ID
      ]_vars

\* C17 witness: a service that differed from the desired one in replicas
\* only was updated in place: no remove, the same id
C17_Witness ==
    /\ pc = "done"
    /\ ~ check_mode
    /\ result.kind = "exit_json"
    /\ result.changes = <<"replicas">>
    /\ Ops = <<"update_service">>
    /\ svc # None
    /\ svc.ID = current_service.service_id
    /\ svc.Spec.Mode.Replicated.Replicas = params.replicas

\* the record moved on since get_service read it: somebody else updated it
\* (another version index) or replaced it (another id)
MovedOn(record) ==
    /\ record # None
    /\ fetched # None
    /\ fetched.Spec.Name = record.Spec.Name
    /\ \/ record.ID # fetched.ID
       \/ record.Version.Index # fetched.Version.Index

\* C18: the remove and create calls name the service and carry neither an
\* id nor a version index; a remove that the daemon answers deletes the
\* record of that name whatever its version index is by then, and the run
\* goes on: it reports "service removed", or goes on to the create of the
\* rebuild, never an exception.
C18_OnlyUpdateGuarded ==
    [][ /\ \A i \in 1..Len(calls') :
              calls'[i].op \in {"remove_service", "create_service"} =>
                  /\ calls'[i].name = params'.name
                  /\ "service_version" \notin DOMAIN calls'[i]
                  /\ "service_id" \notin DOMAIN calls'[i]
        /\ ( /\ pc \in {"remove", "rebuild_remove"}
             /\ pc' # pc
             /\ svc # None
             /\ result'.error # "transport" )
           => /\ svc' = None
              /\ removed' = svc
              /\ result'.kind # "exception"
              /\ pc = "remove" => result' = exit_json("service removed", <<>>, TRUE)
              /\ pc = "rebuild_remove" => pc' = "rebuild_create"
      ]_vars

\* C18 witness: a rebuild completed although somebody else had updated the
\* service after get_service read it; the record created holds nothing of
\* that update
C18_Witness ==
    /\ pc = "done"
    /\ result.kind = "exit_json"
    /\ result.msg = "rebuild service (changes: %s)"
    /\ Ops = <<"remove_service", "create_service">>
    /\ MovedOn(removed)
    /\ removed.ID = fetched.ID
    /\ removed.Spec.TaskTemplate.ContainerSpec.Env = <<"DEBUG=1">>
    /\ svc # None
    /\ svc.Spec.TaskTemplate.ContainerSpec.Env = <<>>

====
